---------------------------- MODULE Spec2Model ----------------------------
(***************************************************************************)
(* Model of src/vector_ingest.py: a resumable pipeline that reads rows,    *)
(* filters them against a checkpoint file, embeds them in parallel chunks, *)
(* buffers the vectors and upserts them to a vector index with retries,    *)
(* appending the ids of each confirmed batch to the checkpoint file.       *)
(*                                                                         *)
(* An id is a sequence of one-character strings, so that the write         *)
(* (str(id) + newline) and the read (line.strip()) of the checkpoint file  *)
(* are modelled by what they do.  The file is the sequence of its lines.   *)
(* Batch sizes (100 in the code) are scaled down and drawn in Init.        *)
(*                                                                         *)
(* Spec is the script, run twice on the same sheet, with max_retries and   *)
(* initial_delay at their defaults (the only values the script passes) and *)
(* the checkpoint on a local file.  SpecLive is the same script when its   *)
(* process is not stopped and every call returns.  SpecUpsert is one       *)
(* upsert_with_retry call with its parameters and the errors it can meet   *)
(* drawn from sets.  SpecCoerce is the metadata coercion of one value,     *)
(* drawn from the kinds of value it tests for.                             *)
(***************************************************************************)
EXTENDS Integers, Sequences, FiniteSets, TLC

\* ------------------------------------------------------------- bounds
MaxRecords == 3        \* rows of the input sheet: 1..MaxRecords
MaxEmbedBatch == 2     \* OPENAI_EMBEDDING_BATCH_SIZE is drawn from 1..MaxEmbedBatch
MaxUpsertBatch == 2    \* PINECONE_UPSERT_BATCH_SIZE is drawn from 1..MaxUpsertBatch
MaxRetriesArg == 4     \* SpecUpsert draws max_retries from 1..MaxRetriesArg
MaxBatchLen == 2       \* SpecUpsert draws a batch of 1..MaxBatchLen items
MaxListLen == 2        \* SpecCoerce draws lists of 0..MaxListLen elements

\* ------------------------------------------------- program constants
DEFAULT_MAX_RETRIES == 3       \* max_retries=3 in upsert_with_retry's signature
DEFAULT_INITIAL_DELAY == 5     \* initial_delay=5 in upsert_with_retry's signature
DELAY_CAP == 60                \* min(..., 60) in the backoff
InitialDelays == {1, DEFAULT_INITIAL_DELAY, 20, 70}
REQUIRED_DIMENSION == 3072     \* dimension=3072 of create_index and of the check
FORMER_DIMENSION == 1536       \* the dimension of an index made before the change to 3072
NO_INDEX == 0                  \* pc.has_index(index_name) is false
IndexStates == {NO_INDEX, REQUIRED_DIMENSION, FORMER_DIMENSION}

VARIABLES
    sheet,                        \* EXCEL_FILE: its rows, as cells
    value,                        \* SpecCoerce: the attribute value being coerced
    original_column_dtype,        \* SpecCoerce: the dtype of its column
    coerced,                      \* SpecCoerce: metadata_payload[col_name], once assigned
    index_dimension,              \* the dimension of the index found or created at startup
    excel,                        \* df after read_excel/astype(str)/dropna: the ids, in row order
    OPENAI_EMBEDDING_BATCH_SIZE,
    PINECONE_UPSERT_BATCH_SIZE,
    max_retries,
    initial_delay,
    file,                         \* CHECKPOINT_FILE: the sequence of its lines
    run,                          \* number of executions started so far
    pc,                           \* position of the main thread
    processed_ids_set,
    df,                           \* the rows left after the checkpoint filter (row numbers)
    fut,                          \* the future of each embedding chunk
    consumed,                     \* chunks already yielded by as_completed
    batch_idx,
    item_idx_in_batch,
    vectors_to_upsert_buffer,
    processed_count_in_run,
    retries,                      \* local of upsert_with_retry
    savePos,                      \* position of the for loop of save_processed_ids
    caller,                       \* which call site of upsert_with_retry is active
    startFile,                    \* history: the file when this run started
    call,                         \* history: the latest upsert_with_retry call of this run
    passed,                       \* history: rows handed to pinecone_index.upsert in this run
    confirmed,                    \* history: rows of a batch whose upsert returned, this run
    nCalls,                       \* history: upsert_with_retry calls of this run
    faults                        \* history: the errors raised in upsert_with_retry in this run

cfgVars == <<sheet, value, original_column_dtype, OPENAI_EMBEDDING_BATCH_SIZE,
             PINECONE_UPSERT_BATCH_SIZE, max_retries, initial_delay>>
loadVars == <<coerced, index_dimension, excel>>
vars == <<sheet, value, original_column_dtype, coerced, index_dimension, excel,
          OPENAI_EMBEDDING_BATCH_SIZE, PINECONE_UPSERT_BATCH_SIZE,
          max_retries, initial_delay, file, run, pc, processed_ids_set, df, fut,
          consumed, batch_idx, item_idx_in_batch, vectors_to_upsert_buffer,
          processed_count_in_run, retries, savePos, caller, startFile, call, passed,
          confirmed, nCalls, faults>>

histVars == <<call, passed, confirmed, nCalls, faults>>

\* ------------------------------------------------------------ helpers
Min(a, b) == IF a <= b THEN a ELSE b

Range(s) == {s[i] : i \in 1..Len(s)}

RUNNING == 0 - 1      \* "ret" of a call that has not returned

Digits == <<"1", "2", "3", "4", "5", "6", "7", "8", "9">>

\* The post_id of row i.  Row 2 carries a trailing blank, as a text cell may.
RowId(i) == IF i = 2 THEN <<Digits[i], " ">> ELSE <<Digits[i]>>

Sheet(n) == [i \in 1..n |-> RowId(i)]

\* A cell of the sheet or an attribute value: its kind, its text as str() gives
\* it, and its elements if it is a list.
Val(kind, v) == [kind |-> kind, v |-> v, elems |-> <<>>]

Str(v) == Val("str", v)

NaN == Val("null", <<"n", "a", "n">>)

ListOf(elems) == [kind |-> "list", v |-> <<>>, elems |-> elems]

\* which cell of the last row of the sheet is empty
NullKinds == {"none", "id", "text"}

\* Row i of the sheet: post_id, post_text and one numeric column, empty in the
\* even rows (a float64 column, as a numeric column with empty cells is read).
RawRow(i, nk) ==
    [row |-> i,
     post_id |-> IF nk = "id" THEN NaN ELSE Str(RowId(i)),
     post_text |-> IF nk = "text" THEN NaN ELSE Str(<<"t", Digits[i]>>),
     likes |-> IF i % 2 = 0 THEN NaN ELSE Val("float", <<Digits[i], ".", "0">>)]

RawSheet(n, nk) == [i \in 1..n |-> RawRow(i, IF i = n THEN nk ELSE "none")]

\* The sheets of the runs: every length with no empty cell, and one length
\* with the id or the text of the last row empty.
Sheets ==
    {RawSheet(n, "none") : n \in 1..MaxRecords}
        \cup {RawSheet(MaxRecords - 1, nk) : nk \in NullKinds}

\* pd.isna of a scalar
isna(x) == x.kind = "null"

\* Series.astype(str): every cell becomes str(cell), a missing one the text "nan"
astype_str(cell) == Str(cell.v)

\* df.dropna(subset=[ID_COLUMN, EMBED_COLUMN])
RECURSIVE DropNaFrom(_, _)
DropNaFrom(rows, i) ==
    IF i > Len(rows) THEN <<>>
    ELSE IF isna(rows[i].post_id) \/ isna(rows[i].post_text)
         THEN DropNaFrom(rows, i + 1)
         ELSE <<rows[i]>> \o DropNaFrom(rows, i + 1)

dropna(rows) == DropNaFrom(rows, 1)

\* "Load data": read_excel, then astype(str) on the id column, then dropna
LoadData(sh) ==
    dropna([i \in 1..Len(sh) |-> [sh[i] EXCEPT !.post_id = astype_str(@)]])

\* the id column of the loaded frame
IdColumn(frame) == [r \in 1..Len(frame) |-> frame[r].post_id.v]

\* df[col_name].dtype
Dtypes == {"number", "bool", "object"}

ColumnDtype(col_name) == IF col_name = "likes" THEN "number" ELSE "object"

\* The outcomes of "if pd.isna(value):".  pd.isna of a list is an array of
\* booleans, and the truth value of an array is that of its element if it has
\* one, a ValueError if it has more, and for an empty array False or a
\* ValueError depending on the numpy release.
IsNaTruth(x) ==
    IF x.kind # "list" THEN {IF isna(x) THEN "true" ELSE "false"}
    ELSE IF Len(x.elems) = 0 THEN {"false", "raise"}
    ELSE IF Len(x.elems) = 1 THEN {IF isna(x.elems[1]) THEN "true" ELSE "false"}
    ELSE {"raise"}

RAISED == Val("raised", <<>>)

PENDING == Val("pending", <<>>)

\* The if/elif chain that assigns metadata_payload[col_name], t being the
\* outcome of its first test.
CoerceWhen(x, dtype, t) ==
    IF t = "raise" THEN RAISED
    ELSE IF t = "true"
         THEN IF dtype = "number" THEN Val("int", <<"0">>)
              ELSE IF dtype = "bool" THEN Val("bool", <<"F", "a", "l", "s", "e">>)
              ELSE Str(<<>>)
    ELSE IF x.kind \in {"bool", "int", "float", "str"} THEN x
    ELSE IF x.kind = "list"
         THEN ListOf([i \in 1..Len(x.elems) |-> Str(x.elems[i].v)])
    ELSE Str(x.v)

\* the same for a scalar, whose first test has one outcome
Coerce(x, dtype) == CoerceWhen(x, dtype, CHOOSE t \in IsNaTruth(x) : TRUE)

\* "for col_name, value in original_row_data_series.items()"
metadata_payload(series) ==
    [post_id |-> Coerce(series.post_id, ColumnDtype("post_id")),
     post_text |-> Coerce(series.post_text, ColumnDtype("post_text")),
     likes |-> Coerce(series.likes, ColumnDtype("likes"))]

IsSpace(ch) == ch = " "

RECURSIVE LStrip(_)
LStrip(s) == IF s # <<>> /\ IsSpace(Head(s)) THEN LStrip(Tail(s)) ELSE s

RECURSIVE RStrip(_)
RStrip(s) ==
    IF s # <<>> /\ IsSpace(s[Len(s)]) THEN RStrip(SubSeq(s, 1, Len(s) - 1)) ELSE s

\* str.strip()
Strip(s) == LStrip(RStrip(s))

\* load_processed_ids: the set of the stripped non-empty lines
load_processed_ids(f) == {Strip(f[i]) : i \in {j \in 1..Len(f) : Strip(f[j]) # <<>>}}

\* df[~df[ID_COLUMN].isin(processed_ids_set)], as the sequence of kept row numbers
RECURSIVE FilterFrom(_, _, _)
FilterFrom(ids, done, i) ==
    IF i > Len(ids) THEN <<>>
    ELSE IF ids[i] \in done THEN FilterFrom(ids, done, i + 1)
         ELSE <<i>> \o FilterFrom(ids, done, i + 1)

isin_filter(ids, done) == FilterFrom(ids, done, 1)

\* range(0, len(df), OPENAI_EMBEDDING_BATCH_SIZE): the number of chunks
NumBatches(d, size) == (Len(d) + size - 1) \div size

\* df.iloc[i:i+OPENAI_EMBEDDING_BATCH_SIZE] for the c-th chunk (c from 1)
BatchRows(d, size, c) == SubSeq(d, (c - 1) * size + 1, Min(c * size, Len(d)))

all_id_batches(c) == BatchRows(df, OPENAI_EMBEDDING_BATCH_SIZE, c)

Chunks == 1..NumBatches(df, OPENAI_EMBEDDING_BATCH_SIZE)

\* the texts of chunk c, each named by the row it is the post_text of
all_text_batches_to_embed(c) == BatchRows(df, OPENAI_EMBEDDING_BATCH_SIZE, c)

\* the frame slice of chunk c
all_original_data_batches(c) ==
    [i \in 1..Len(all_id_batches(c)) |-> LoadData(sheet)[all_id_batches(c)[i]]]

\* the embedding of the text of row r is written r
Embedding(r) == r

\* embed(texts_batch): one vector per text, "[r.embedding for r in res.data]"
embed(texts_batch) == [i \in 1..Len(texts_batch) |-> Embedding(texts_batch[i])]

\* variant: the ids are taken from the chunk at the future's place in the
\* order of completion
original_ids_for_this_batch_by_completion(c, k) ==
    [i \in 1..Len(all_id_batches(c)) |->
        all_id_batches(k)[Min(i, Len(all_id_batches(k)))]]

\* "batch_idx = future_to_batch_index[future]; all_id_batches[batch_idx]": c is
\* the index the future was submitted with, k its place in the order of completion
original_ids_for_this_batch(c, k) == all_id_batches(c)

\* the dict appended to the buffer
VectorItem(pinecone_id, embedding_vector, payload) ==
    [id |-> pinecone_id, values |-> embedding_vector, metadata |-> payload]

\* the item of row r, as the loop builds it when nothing is mixed up
ItemOfRow(r) == VectorItem(excel[r], Embedding(r), metadata_payload(LoadData(sheet)[r]))

\* is_retryable: a substring test on the lower-cased message, here on its class
RetryableSubstrings ==
    {"ssl", "connection", "timeout", "serviceunavailable", "bad_write_retry",
     "broken pipe", "server error"}

\* variant: every error is taken for a transient one
is_retryable_always(err) == TRUE

is_retryable(err) == err \in RetryableSubstrings

SinkOutcomes == {"ok", "timeout", "unauthorized"}
\* The messages of an OSError raised by a write.  On a local file they are those
\* of ENOSPC, EIO, EDQUOT, which hold no retryable substring; on a network file
\* system a write can also end in "Connection timed out".
LocalWriteErrors == {"no space left"}
WriteErrors == LocalWriteErrors \cup {"connection"}

\* variant: the failure of the sink call is swallowed and the ids are saved anyway
Raises_swallowed(outcome) == FALSE

\* whether pinecone_index.upsert raised
Raises(outcome) == outcome # "ok"

\* variant: the delay is computed before retries is incremented
ActualDelay_before_increment(current_delay, r) ==
    Min(current_delay * (2 ^ (r - 1)), DELAY_CAP)

\* actual_delay = min(current_delay * (2**retries), 60), retries already incremented
ActualDelay(current_delay, r) == Min(current_delay * (2 ^ r), DELAY_CAP)

\* variant: the retry counter is left as it is
RetriesAfter_same(r) == r

\* "retries += 1"
RetriesAfter(r) == r + 1

\* variant: one retry fewer
ShouldRetry_one_fewer(retryable, r, limit) == retryable /\ r < limit - 2

\* variant: one retry more (retries counted up to max_retries)
ShouldRetry_one_more(retryable, r, limit) == retryable /\ r < limit

\* "if is_retryable and retries < max_retries - 1"
ShouldRetry(retryable, r, limit) == retryable /\ r < limit - 1

\* variant: the flush waits for one item too many
FlushDue_strict(buf, size) == Len(buf) > size

\* variant: the flush comes one item early
FlushDue_early(buf, size) == Len(buf) >= size - 1

\* "if len(vectors_to_upsert_buffer) >= PINECONE_UPSERT_BATCH_SIZE"
FlushDue(buf, size) == Len(buf) >= size

\* variant: the buffer is cleared only after a confirmed delivery
BufferAfterUpsert_keep_failed(succeeded_count, buf) ==
    IF succeeded_count > 0 THEN <<>> ELSE buf

\* "vectors_to_upsert_buffer = []  # Clear buffer", whatever the call returned
BufferAfterUpsert(succeeded_count, buf) == <<>>

NewCall(batch, site) ==
    [batch |-> batch, site |-> site, outcomes |-> <<>>, delays |-> <<>>,
     ret |-> RUNNING, fileBefore |-> Len(file), saveFailed |-> FALSE]

NoCall == [NewCall(<<>>, "none") EXCEPT !.ret = 0]

Rows(batch) == {batch[i].values : i \in 1..Len(batch)}

\* ---------------------------------------------------------------- Init
Init ==
    /\ sheet \in Sheets
    /\ value = NaN
    /\ original_column_dtype = "object"
    /\ coerced = PENDING
    /\ index_dimension = NO_INDEX
    /\ excel = <<>>
    /\ OPENAI_EMBEDDING_BATCH_SIZE \in 1..MaxEmbedBatch
    /\ PINECONE_UPSERT_BATCH_SIZE \in 1..MaxUpsertBatch
    /\ max_retries = DEFAULT_MAX_RETRIES
    /\ initial_delay = DEFAULT_INITIAL_DELAY
    /\ file = <<>>
    /\ run = 0
    /\ pc = "init"
    /\ processed_ids_set = {}
    /\ df = <<>>
    /\ fut = <<>>
    /\ consumed = {}
    /\ batch_idx = 0
    /\ item_idx_in_batch = 0
    /\ vectors_to_upsert_buffer = <<>>
    /\ processed_count_in_run = 0
    /\ retries = 0
    /\ savePos = 0
    /\ caller = "none"
    /\ startFile = <<>>
    /\ call = NoCall
    /\ passed = {}
    /\ confirmed = {}
    /\ nCalls = 0
    /\ faults = {}

\* ------------------------------------------------------------- actions

\* variant: the dimension of an existing index is not looked at
DimensionMismatch_ignored(found) == FALSE

\* "elif pc.describe_index(index_name).dimension != 3072"
DimensionMismatch(found) == found # NO_INDEX /\ found # REQUIRED_DIMENSION

\* One execution of the script up to the submission of the chunks: create or
\* check the index (found is its state at startup), load the sheet, load the
\* checkpoint, filter, exit if nothing is left, else submit every chunk.
StartRun(found) ==
    /\ pc \in {"init", "done", "exited", "crashed", "aborted"}
    /\ run < 2                      \* two consecutive executions on the same file
    /\ run' = run + 1
    /\ startFile' = file
    /\ IF DimensionMismatch(found)
       THEN /\ index_dimension' = found
            /\ excel' = <<>>
            /\ processed_ids_set' = {}
            /\ df' = <<>>
            /\ fut' = <<>>
            /\ pc' = "aborted"
       ELSE LET frame == LoadData(sheet)
                ids == IdColumn(frame)
                loaded == load_processed_ids(file)
                kept == IF loaded # {} THEN isin_filter(ids, loaded)
                        ELSE [i \in 1..Len(ids) |-> i]
            IN /\ index_dimension' = IF found = NO_INDEX THEN REQUIRED_DIMENSION
                                     ELSE found
               /\ excel' = ids
               /\ processed_ids_set' = loaded
               /\ df' = kept
               /\ fut' = [c \in 1..NumBatches(kept, OPENAI_EMBEDDING_BATCH_SIZE) |->
                              "submitted"]
               /\ pc' = IF kept = <<>> THEN "exited" ELSE "wait"
    /\ consumed' = {}
    /\ batch_idx' = 0
    /\ item_idx_in_batch' = 0
    /\ vectors_to_upsert_buffer' = <<>>
    /\ processed_count_in_run' = 0
    /\ retries' = 0
    /\ savePos' = 0
    /\ caller' = "none"
    /\ call' = NoCall
    /\ passed' = {}
    /\ confirmed' = {}
    /\ nCalls' = 0
    /\ faults' = {}
    /\ UNCHANGED <<cfgVars, coerced, file>>

Alive == pc \in {"wait", "items", "upsert", "save"}

\* variant: the worker thread itself appends its first item to the buffer
EmbedSucceed_appends(c) ==
    /\ Alive
    /\ c \in Chunks /\ fut[c] = "submitted"
    /\ fut' = [fut EXCEPT ![c] = "ok"]
    /\ vectors_to_upsert_buffer' =
          Append(vectors_to_upsert_buffer, ItemOfRow(all_id_batches(c)[1]))
    /\ UNCHANGED <<cfgVars, loadVars, file, run, pc, processed_ids_set, df, consumed,
                   batch_idx, item_idx_in_batch, processed_count_in_run,
                   retries, savePos, caller, startFile, histVars>>

\* A worker thread: embed(texts_batch) returns one vector per text.
EmbedSucceed(c) ==
    /\ Alive
    /\ c \in Chunks /\ fut[c] = "submitted"
    /\ fut' = [fut EXCEPT ![c] = "ok"]
    /\ UNCHANGED <<cfgVars, loadVars, file, run, pc, processed_ids_set, df, consumed, batch_idx,
                   item_idx_in_batch, vectors_to_upsert_buffer, processed_count_in_run,
                   retries, savePos, caller, startFile, histVars>>

\* A worker thread: openai.embeddings.create raised.
EmbedFail(c) ==
    /\ Alive
    /\ c \in Chunks /\ fut[c] = "submitted"
    /\ fut' = [fut EXCEPT ![c] = "failed"]
    /\ UNCHANGED <<cfgVars, loadVars, file, run, pc, processed_ids_set, df, consumed, batch_idx,
                   item_idx_in_batch, vectors_to_upsert_buffer, processed_count_in_run,
                   retries, savePos, caller, startFile, histVars>>

\* as_completed yields a finished future whose result() returns the vectors.
ConsumeOk(c) ==
    /\ pc = "wait"
    /\ c \in Chunks \ consumed /\ fut[c] = "ok"
    /\ batch_idx' = c
    /\ item_idx_in_batch' = 1
    /\ pc' = "items"
    /\ UNCHANGED <<cfgVars, loadVars, file, run, processed_ids_set, df, fut, consumed,
                   vectors_to_upsert_buffer, processed_count_in_run, retries, savePos,
                   caller, startFile, histVars>>

\* variant: the exception of one chunk ends the loop over as_completed
SkippedWith_abort(c, done, all) == all

\* The chunks left to the for loop over as_completed after chunk c's result()
\* raised: the except clause prints and the loop goes on, so only c is dropped.
SkippedWith(c, done, all) == done \cup {c}

\* as_completed yields a finished future whose result() raises: logged, skipped.
ConsumeFailed(c) ==
    /\ pc = "wait"
    /\ c \in Chunks \ consumed /\ fut[c] = "failed"
    /\ batch_idx' = c
    /\ consumed' = SkippedWith(c, consumed, Chunks)
    /\ UNCHANGED <<cfgVars, loadVars, file, run, pc, processed_ids_set, df, fut, item_idx_in_batch,
                   vectors_to_upsert_buffer, processed_count_in_run, retries, savePos,
                   caller, startFile, histVars>>

\* entry of upsert_with_retry(index, vectors_to_upsert_buffer, CHECKPOINT_FILE)
EnterUpsert(batch, site) ==
    /\ call' = NewCall(batch, site)
    /\ nCalls' = nCalls + 1
    /\ retries' = 0
    /\ savePos' = 0
    /\ caller' = site
    /\ pc' = "upsert"

\* the inner for loop goes to its next embedding, or the chunk is finished
ContinueLoop ==
    IF item_idx_in_batch < Len(all_id_batches(batch_idx))
    THEN /\ pc' = "items"
         /\ item_idx_in_batch' = item_idx_in_batch + 1
         /\ UNCHANGED consumed
    ELSE /\ pc' = "wait"
         /\ item_idx_in_batch' = item_idx_in_batch
         /\ consumed' = consumed \cup {batch_idx}

\* One iteration of "for item_idx_in_batch, embedding_vector in enumerate(...)":
\* append the item, and call upsert_with_retry when the buffer is full.
AppendItem ==
    /\ pc = "items"
    /\ LET generated_embeddings_for_batch == embed(all_text_batches_to_embed(batch_idx))
           ids == original_ids_for_this_batch(batch_idx, Cardinality(consumed) + 1)
           pinecone_id == excel[ids[item_idx_in_batch]]
           original_row_data_series ==
               all_original_data_batches(batch_idx)[item_idx_in_batch]
           buf == Append(vectors_to_upsert_buffer,
                         VectorItem(pinecone_id,
                                    generated_embeddings_for_batch[item_idx_in_batch],
                                    metadata_payload(original_row_data_series)))
       IN /\ vectors_to_upsert_buffer' = buf
          /\ IF FlushDue(buf, PINECONE_UPSERT_BATCH_SIZE) /\ buf # <<>>
             THEN /\ EnterUpsert(buf, "loop")
                  /\ UNCHANGED <<item_idx_in_batch, consumed>>
             ELSE /\ ContinueLoop
                  /\ UNCHANGED <<retries, savePos, caller, call, nCalls>>
    /\ UNCHANGED <<cfgVars, loadVars, file, run, processed_ids_set, df, fut, batch_idx,
                   processed_count_in_run, startFile, passed, confirmed,
                   faults>>

\* variant: the loop over as_completed ends after the first chunk
LoopFinished_after_first(done, all) == done # {}

\* as_completed is exhausted once it has yielded every submitted future
LoopFinished(done, all) == done = all

\* Every future has been consumed: the with block ends and the rest is flushed.
FinalFlush ==
    /\ pc = "wait"
    /\ LoopFinished(consumed, Chunks)
    /\ IF vectors_to_upsert_buffer # <<>>
       THEN EnterUpsert(vectors_to_upsert_buffer, "final")
       ELSE /\ pc' = "done"
            /\ UNCHANGED <<retries, savePos, caller, call, nCalls>>
    /\ UNCHANGED <<cfgVars, loadVars, file, run, processed_ids_set, df, fut, consumed, batch_idx,
                   item_idx_in_batch, vectors_to_upsert_buffer, processed_count_in_run,
                   startFile, passed, confirmed, faults>>

\* upsert_with_retry returns v to its call site, which counts and clears the buffer.
Return(v) ==
    /\ processed_count_in_run' =
           IF v > 0 THEN processed_count_in_run + v ELSE processed_count_in_run
    /\ vectors_to_upsert_buffer' = BufferAfterUpsert(v, vectors_to_upsert_buffer)
    /\ IF caller = "loop"
       THEN ContinueLoop
       ELSE /\ pc' = "done"
            /\ UNCHANGED <<item_idx_in_batch, consumed>>

\* the except clause of upsert_with_retry, for an exception of class err; c is
\* the call's record with the attempt already noted.  After a retry the while
\* condition is tested again; were it false the function would return 0.
HandleError(err, c) ==
    IF ShouldRetry(is_retryable(err), retries, max_retries)
    THEN /\ retries' = RetriesAfter(retries)
         /\ LET slept == [c EXCEPT !.delays =
                            Append(@, ActualDelay(initial_delay, RetriesAfter(retries)))]
            IN IF RetriesAfter(retries) < max_retries
               THEN /\ call' = slept
                    /\ pc' = "upsert"
                    /\ UNCHANGED <<vectors_to_upsert_buffer, processed_count_in_run,
                                   item_idx_in_batch, consumed>>
               ELSE /\ call' = [slept EXCEPT !.ret = 0]
                    /\ Return(0)
    ELSE /\ call' = [c EXCEPT !.ret = 0]
         /\ retries' = retries
         /\ Return(0)

\* pinecone_index.upsert(vectors=vectors_batch) returns or raises.
SinkCall(outcome) ==
    /\ pc = "upsert"
    /\ retries < max_retries
    /\ passed' = passed \cup Rows(call.batch)
    /\ confirmed' = IF outcome = "ok" THEN confirmed \cup Rows(call.batch) ELSE confirmed
    /\ faults' = IF outcome = "ok" THEN faults ELSE faults \cup {outcome}
    /\ LET c == [call EXCEPT !.outcomes = Append(@, outcome)]
       IN IF Raises(outcome)
          THEN /\ HandleError(outcome, c)
               /\ UNCHANGED savePos
          ELSE /\ call' = c
               /\ savePos' = 1
               /\ pc' = "save"
               /\ UNCHANGED <<retries, vectors_to_upsert_buffer, processed_count_in_run,
                              item_idx_in_batch, consumed>>
    /\ UNCHANGED <<cfgVars, loadVars, file, run, processed_ids_set, df, fut, batch_idx, caller,
                   startFile, nCalls>>

\* One f.write(str(id_val) + '\n') of save_processed_ids; after the last one the
\* file is closed and upsert_with_retry returns the batch's length.
SaveWrite ==
    /\ pc = "save"
    /\ file' = Append(file, call.batch[savePos].id)
    /\ IF savePos < Len(call.batch)
       THEN /\ savePos' = savePos + 1
            /\ UNCHANGED <<pc, call, vectors_to_upsert_buffer, processed_count_in_run,
                           item_idx_in_batch, consumed>>
       ELSE /\ savePos' = savePos
            /\ call' = [call EXCEPT !.ret = Len(call.batch)]
            /\ Return(Len(call.batch))
    /\ UNCHANGED <<cfgVars, loadVars, run, processed_ids_set, df, fut, batch_idx, retries, caller,
                   startFile, passed, confirmed, nCalls, faults>>

\* A write (or the close) of save_processed_ids raises: the exception is caught
\* by the except clause of upsert_with_retry like one of the sink.
SaveFail(err) ==
    /\ pc = "save"
    /\ HandleError(err, [call EXCEPT !.saveFailed = TRUE])
    /\ faults' = faults \cup {"write"}
    /\ UNCHANGED <<cfgVars, loadVars, file, run, processed_ids_set, df, fut, batch_idx, savePos,
                   caller, startFile, passed, confirmed, nCalls>>

\* The process stops (killed, power loss): its memory is gone, the file stays.
Crash ==
    /\ Alive
    /\ pc' = "crashed"
    /\ processed_ids_set' = {}
    /\ df' = <<>>
    /\ fut' = <<>>
    /\ consumed' = {}
    /\ batch_idx' = 0
    /\ item_idx_in_batch' = 0
    /\ vectors_to_upsert_buffer' = <<>>
    /\ processed_count_in_run' = 0
    /\ retries' = 0
    /\ savePos' = 0
    /\ caller' = "none"
    /\ UNCHANGED <<cfgVars, loadVars, file, run, startFile, histVars>>

Next ==
    \/ \E found \in IndexStates : StartRun(found)
    \/ \E c \in 1..MaxRecords : EmbedSucceed(c)
    \/ \E c \in 1..MaxRecords : EmbedFail(c)
    \/ \E c \in 1..MaxRecords : ConsumeOk(c)
    \/ \E c \in 1..MaxRecords : ConsumeFailed(c)
    \/ AppendItem
    \/ FinalFlush
    \/ \E o \in SinkOutcomes : SinkCall(o)
    \/ SaveWrite
    \/ \E e \in LocalWriteErrors : SaveFail(e)
    \/ Crash

Spec == Init /\ [][Next]_vars

\* The script when its process is not stopped from outside, every provider call
\* and every sink call returns, and the threads keep being scheduled.
NextLive ==
    \/ \E found \in IndexStates : StartRun(found)
    \/ \E c \in 1..MaxRecords : EmbedSucceed(c)
    \/ \E c \in 1..MaxRecords : EmbedFail(c)
    \/ \E c \in 1..MaxRecords : ConsumeOk(c)
    \/ \E c \in 1..MaxRecords : ConsumeFailed(c)
    \/ AppendItem
    \/ FinalFlush
    \/ \E o \in SinkOutcomes : SinkCall(o)
    \/ SaveWrite
    \/ \E e \in LocalWriteErrors : SaveFail(e)

\* a step of the main thread after startup
MainStep ==
    \/ \E c \in 1..MaxRecords : ConsumeOk(c)
    \/ \E c \in 1..MaxRecords : ConsumeFailed(c)
    \/ AppendItem
    \/ FinalFlush
    \/ \E o \in SinkOutcomes : SinkCall(o)
    \/ SaveWrite
    \/ \E e \in LocalWriteErrors : SaveFail(e)

SpecLive ==
    /\ Init
    /\ [][NextLive]_vars
    /\ \A c \in 1..MaxRecords : WF_vars(EmbedSucceed(c) \/ EmbedFail(c))
    /\ WF_vars(MainStep)

\* ------------------------------------------- upsert_with_retry on its own
\* One call of upsert_with_retry with its parameters drawn from bounded sets:
\* the final flush of a run over n rows that were all embedded in one chunk.
InitUpsert ==
    /\ file = <<>>
    /\ \E n \in 1..MaxBatchLen :
          /\ sheet = RawSheet(n, "none")
          /\ value = NaN
          /\ original_column_dtype = "object"
          /\ coerced = PENDING
          /\ index_dimension = REQUIRED_DIMENSION
          /\ excel = IdColumn(LoadData(sheet))
          /\ OPENAI_EMBEDDING_BATCH_SIZE = n
          /\ PINECONE_UPSERT_BATCH_SIZE = n + 1
          /\ df = [i \in 1..n |-> i]
          /\ vectors_to_upsert_buffer = [i \in 1..n |-> ItemOfRow(i)]
          /\ call = NewCall([i \in 1..n |-> ItemOfRow(i)], "final")
          /\ item_idx_in_batch = n
    /\ max_retries \in 1..MaxRetriesArg
    /\ initial_delay \in InitialDelays
    /\ run = 1
    /\ pc = "upsert"
    /\ processed_ids_set = {}
    /\ fut = <<"ok">>
    /\ consumed = {1}
    /\ batch_idx = 1
    /\ processed_count_in_run = 0
    /\ retries = 0
    /\ savePos = 0
    /\ caller = "final"
    /\ startFile = <<>>
    /\ passed = {}
    /\ confirmed = {}
    /\ nCalls = 1
    /\ faults = {}

NextUpsert ==
    \/ \E o \in SinkOutcomes : SinkCall(o)
    \/ SaveWrite
    \/ \E e \in WriteErrors : SaveFail(e)

SpecUpsert == InitUpsert /\ [][NextUpsert]_vars

\* ------------------------------------------- the metadata coercion alone
\* The values a cell of a frame, or an attribute handed to the coercion, can be.
Scalars ==
    {NaN,
     Val("bool", <<"T", "r", "u", "e">>), Val("bool", <<"F", "a", "l", "s", "e">>),
     Val("int", <<"7">>), Val("float", <<"1", ".", "5">>),
     Str(<<>>), Str(<<"a">>),
     Val("other", <<"2", "0", "2", "4", "-", "0", "1", "-", "0", "1">>)}

ListElems == {Str(<<"a">>), Val("int", <<"7">>), NaN}

Lists == {ListOf(e) : e \in UNION {[1..n -> ListElems] : n \in 0..MaxListLen}}

Values == Scalars \cup Lists

InitCoerce ==
    /\ value \in Values
    /\ original_column_dtype \in Dtypes
    /\ coerced = PENDING
    /\ sheet = RawSheet(1, "none")
    /\ index_dimension = REQUIRED_DIMENSION
    /\ excel = IdColumn(LoadData(sheet))
    /\ OPENAI_EMBEDDING_BATCH_SIZE = 1
    /\ PINECONE_UPSERT_BATCH_SIZE = 1
    /\ max_retries = DEFAULT_MAX_RETRIES
    /\ initial_delay = DEFAULT_INITIAL_DELAY
    /\ file = <<>>
    /\ run = 1
    /\ pc = "items"
    /\ processed_ids_set = {}
    /\ df = <<1>>
    /\ fut = <<"ok">>
    /\ consumed = {}
    /\ batch_idx = 1
    /\ item_idx_in_batch = 1
    /\ vectors_to_upsert_buffer = <<>>
    /\ processed_count_in_run = 0
    /\ retries = 0
    /\ savePos = 0
    /\ caller = "none"
    /\ startFile = <<>>
    /\ call = NoCall
    /\ passed = {}
    /\ confirmed = {}
    /\ nCalls = 0
    /\ faults = {}

\* One pass of the body of "for col_name, value in ...items()": the first test,
\* then the branch that assigns metadata_payload[col_name], or the exception.
CoerceValue ==
    /\ coerced = PENDING
    /\ \E t \in IsNaTruth(value) :
          coerced' = CoerceWhen(value, original_column_dtype, t)
    /\ UNCHANGED <<cfgVars, index_dimension, excel, file, run, pc, processed_ids_set,
                   df, fut, consumed, batch_idx, item_idx_in_batch,
                   vectors_to_upsert_buffer, processed_count_in_run, retries, savePos,
                   caller, startFile, histVars>>

NextCoerce == CoerceValue

SpecCoerce == InitCoerce /\ [][NextCoerce]_vars


\* ---------------------------------------------------------- properties
Appended == SubSeq(file, call.fileBefore + 1, Len(file))

BatchIds(b) == [i \in 1..Len(b) |-> b[i].id]

AppendedThisRun == {file[i] : i \in (Len(startFile) + 1)..Len(file)}

ChunkRowSet(c) == Range(all_id_batches(c))

TimeoutsOnly(o) == \A j \in 1..Len(o) : o[j] = "timeout"

CeilDiv(a, b) == IF a % b = 0 THEN a \div b ELSE (a \div b) + 1

RECURSIVE Pow2(_)
Pow2(a) == IF a = 0 THEN 1 ELSE 2 * Pow2(a - 1)

Clean == faults = {}

\* C1: append-after-confirm.  In every state of a run, with any failures and
\* with the process stopped at any step, the lines the file held at startup are
\* untouched, and every line added since is the id of a row of a batch whose
\* upsert had already returned successfully; lines added during the latest call
\* are ids of its batch and come only after an "ok" of the sink.
C1_AppendAfterConfirm ==
    /\ Len(file) >= Len(startFile)
    /\ SubSeq(file, 1, Len(startFile)) = startFile
    /\ \A i \in (Len(startFile) + 1)..Len(file) :
          \E r \in confirmed : file[i] = excel[r]
    /\ (nCalls > 0 /\ Appended # <<>>) =>
          /\ \E j \in 1..Len(call.outcomes) : call.outcomes[j] = "ok"
          /\ Range(Appended) \subseteq Range(BatchIds(call.batch))

\* a run that stopped with ids appended, after a batch that was sent but never confirmed
C1_Witness ==
    /\ pc = "crashed"
    /\ Len(file) > Len(startFile)
    /\ passed # confirmed
    /\ faults # {}

\* C2: batch delivery atomicity, as claimed.  Once the append of the latest
\* call is no longer in progress (the call returned, is retrying, or the process
\* stopped), either all the ids of its batch have been appended by it or none.
C2_BatchAtomic ==
    (nCalls > 0 /\ pc # "save") =>
        \/ Appended = <<>>
        \/ Appended = BatchIds(call.batch)

\* C3, as claimed: after upsert_with_retry returned 0 the items of the
\* abandoned batch are still in the buffer.
C3_AbandonedStaysBuffered ==
    (nCalls > 0 /\ call.ret = 0 /\ pc \in {"wait", "items", "done"}) =>
        Rows(call.batch) \subseteq Rows(vectors_to_upsert_buffer)

\* C3, amended: during a call (retries included) the buffer is the very batch
\* being sent, and once the call has returned, with a count or with 0, none of
\* the batch's items is in the buffer any more.
C3_BufferClearedAfterEveryCall ==
    (nCalls > 0 /\ pc # "crashed") =>
        /\ call.ret = RUNNING => vectors_to_upsert_buffer = call.batch
        /\ call.ret # RUNNING =>
              Rows(call.batch) \cap Rows(vectors_to_upsert_buffer) = {}

\* a batch was abandoned after a failed sink call and the loop went on with an empty buffer
C3_Witness ==
    /\ nCalls > 0
    /\ call.ret = 0
    /\ call.outcomes # <<>>
    /\ pc = "items"
    /\ vectors_to_upsert_buffer = <<>>

\* C4: resumption filter, as claimed.  The rows that enter embedding and
\* delivery are exactly those whose id is not a line of the file at startup, and
\* no id that is a line of the file at startup is sent to the sink or appended
\* again.
C4_ResumptionFilter ==
    (pc \in {"wait", "items", "upsert", "save", "done", "exited"}) =>
        /\ Range(df) = {r \in 1..Len(excel) : excel[r] \notin Range(startFile)}
        /\ \A r \in passed : excel[r] \notin Range(startFile)
        /\ AppendedThisRun \cap Range(startFile) = {}

\* C5: all-success run.  Every batch sent from the loop has exactly
\* PINECONE_UPSERT_BATCH_SIZE items; while nothing has failed every returned
\* call made exactly one sink call and returned its batch's length; and at the
\* end of a run of n rows in which every provider call, sink call and
\* checkpoint write succeeded there were ceil(n/E) provider calls, ceil(n/D)
\* calls of the sink, the last batch held the remainder, and the file gained
\* exactly the n ids.
C5_AllSuccess ==
    LET n == Len(df)
        E == OPENAI_EMBEDDING_BATCH_SIZE
        D == PINECONE_UPSERT_BATCH_SIZE
    IN /\ (nCalls > 0 /\ call.site = "loop") => Len(call.batch) = D
       /\ (nCalls > 0 /\ Clean /\ call.ret # RUNNING) =>
             /\ call.outcomes = <<"ok">>
             /\ call.ret = Len(call.batch)
       /\ (pc = "done" /\ Clean /\ \A c \in DOMAIN fut : fut[c] = "ok") =>
             /\ Cardinality({c \in DOMAIN fut : fut[c] # "submitted"}) = CeilDiv(n, E)
             /\ nCalls = CeilDiv(n, D)
             /\ Len(call.batch) = IF n % D = 0 THEN D ELSE n % D
             /\ Len(file) = Len(startFile) + n
             /\ AppendedThisRun = {excel[r] : r \in Range(df)}
             /\ processed_count_in_run = n

\* three rows in two chunks, delivered as a batch of two and a batch of one
C5_Witness ==
    /\ pc = "done"
    /\ Clean
    /\ Len(df) = 3
    /\ OPENAI_EMBEDDING_BATCH_SIZE = 2
    /\ PINECONE_UPSERT_BATCH_SIZE = 2
    /\ \A c \in DOMAIN fut : fut[c] = "ok"
    /\ nCalls = 2
    /\ Len(call.batch) = 1
    /\ Len(file) = 3

\* C6: retry then success.  Provided no checkpoint write raised: a call whose
\* sink calls so far all failed retryably, fewer than max_retries of them, is
\* still running, about to call the sink again, and has appended nothing; a
\* successful sink call is the last one of its call; and a call that returned
\* after k failures and a success made k+1 sink calls, returned the batch's
\* length and appended the batch's ids exactly once.
C6_RetryThenSuccess ==
    LET o == call.outcomes
    IN ~call.saveFailed =>
        /\ (TimeoutsOnly(o) /\ Len(o) < max_retries) =>
              /\ call.ret = RUNNING
              /\ pc = "upsert"
              /\ retries = Len(o)
              /\ Appended = <<>>
        /\ \A j \in 1..Len(o) : o[j] = "ok" =>
              /\ j = Len(o)
              /\ TimeoutsOnly(SubSeq(o, 1, j - 1))
        /\ (o # <<>> /\ o[Len(o)] = "ok" /\ call.ret # RUNNING) =>
              /\ call.ret = Len(call.batch)
              /\ Appended = BatchIds(call.batch)
              /\ processed_count_in_run = Len(call.batch)

\* max_retries = 3, two timeouts, then the batch is delivered and checkpointed once
C6_Witness ==
    /\ max_retries = 3
    /\ call.outcomes = <<"timeout", "timeout", "ok">>
    /\ call.ret = Len(call.batch)
    /\ Appended = BatchIds(call.batch)
    /\ Len(call.batch) = 2

\* C7: non-retryable abandonment.  A non-retryable failure of the sink is the
\* last sink call of its call, which returns 0 at once and (no checkpoint write
\* having raised in it) appends nothing; the run goes on: it is never stopped by
\* it, and at the end every row of every embedded chunk has been sent to the
\* sink, and a later call that succeeds has its ids appended.
C7_NonRetryableAbandon ==
    /\ \A j \in 1..Len(call.outcomes) : call.outcomes[j] = "unauthorized" =>
          /\ j = Len(call.outcomes)
          /\ call.ret = 0
          /\ ~call.saveFailed => Appended = <<>>
          /\ pc \in {"items", "wait", "done", "crashed"}
    /\ pc = "done" =>
          /\ consumed = Chunks
          /\ \A c \in Chunks : fut[c] = "ok" => ChunkRowSet(c) \subseteq passed
    /\ (nCalls > 0 /\ call.ret > 0 /\ ~call.saveFailed) =>
          Appended = BatchIds(call.batch)

\* a batch was abandoned on a non-retryable error, and a later batch was delivered and checkpointed
C7_Witness ==
    /\ pc = "done"
    /\ "unauthorized" \in faults
    /\ nCalls >= 2
    /\ call.outcomes = <<"ok">>
    /\ call.ret = Len(call.batch)
    /\ Appended = BatchIds(call.batch)
    /\ passed # confirmed

\* C8, as claimed: a failure is retried while the attempt count is below
\* max_retries, and a batch that always fails retryably is abandoned after
\* max_retries retries, max_retries + 1 sink calls.
C8_BudgetAsClaimed ==
    LET o == call.outcomes
    IN /\ (o # <<>> /\ TimeoutsOnly(o) /\ Len(o) <= max_retries) => call.ret = RUNNING
       /\ (o # <<>> /\ TimeoutsOnly(o) /\ call.ret = 0) =>
             /\ Len(o) = max_retries + 1
             /\ Len(call.delays) = max_retries

\* C8, amended: a retryable failure is retried while retries < max_retries - 1
\* and the batch is abandoned at retries = max_retries - 1: a batch that always
\* fails retryably gets max_retries - 1 retries, max_retries sink calls in all.
C8_BudgetOfTheCode ==
    LET o == call.outcomes
    IN /\ Len(o) <= max_retries
       /\ retries = Len(call.delays)
       /\ retries <= max_retries - 1
       /\ (TimeoutsOnly(o) /\ Len(o) < max_retries) =>
             /\ call.ret = RUNNING
             /\ retries = Len(o)
       /\ (o # <<>> /\ TimeoutsOnly(o) /\ call.ret = 0) =>
             /\ Len(o) = max_retries
             /\ Len(call.delays) = max_retries - 1

\* max_retries = 3: abandoned after three failed sink calls and two sleeps
C8_Witness ==
    /\ max_retries = 3
    /\ call.outcomes = <<"timeout", "timeout", "timeout">>
    /\ call.ret = 0
    /\ Len(call.delays) = 2
    /\ file = <<>>

\* C9: backoff.  The a-th sleep of a call lasts min(initial_delay * 2^a, 60);
\* the sleeps of a call never decrease, never exceed 60, and there are at most
\* max_retries of them.
C9_Backoff ==
    LET d == call.delays
    IN /\ Len(d) <= max_retries
       /\ \A a \in 1..Len(d) :
             /\ d[a] = Min(initial_delay * Pow2(a), 60)
             /\ d[a] <= 60
             /\ a > 1 => d[a - 1] <= d[a]

\* initial_delay = 20: the sleeps are 40, then 60 twice (capped)
C9_Witness ==
    /\ initial_delay = 20
    /\ call.delays = <<40, 60, 60>>

\* C10: chunk failure isolation.  No row of a chunk whose provider call failed
\* is sent to the sink or has its id appended in the run; and whatever chunks
\* failed and in whatever order the chunks completed, a run that ends has
\* consumed every chunk and has sent every row of every embedded chunk to the
\* sink in some delivery batch.
C10_ChunkIsolation ==
    /\ \A c \in Chunks : fut[c] = "failed" =>
          /\ ChunkRowSet(c) \cap passed = {}
          /\ ChunkRowSet(c) \cap Rows(vectors_to_upsert_buffer) = {}
          /\ {excel[r] : r \in ChunkRowSet(c)} \cap AppendedThisRun = {}
    /\ pc = "done" =>
          /\ consumed = Chunks
          /\ \A c \in Chunks : fut[c] # "submitted"
          /\ \A c \in Chunks : fut[c] = "ok" => ChunkRowSet(c) \subseteq passed
          /\ vectors_to_upsert_buffer = <<>>

\* one chunk failed, another was embedded, delivered and checkpointed
C10_Witness ==
    /\ pc = "done"
    /\ \E c1, c2 \in Chunks :
          /\ fut[c1] = "failed"
          /\ fut[c2] = "ok"
          /\ c1 < c2
          /\ ChunkRowSet(c2) \subseteq confirmed
          /\ {excel[r] : r \in ChunkRowSet(c2)} \subseteq AppendedThisRun

\* C11: vector-to-record association.  Whatever the order in which the chunks
\* complete, every item in the buffer and every item of a batch handed to
\* upsert_with_retry carries the vector returned for the text of one row together
\* with the id and the coerced attributes of that same row.
C11_Association ==
    /\ \A i \in 1..Len(vectors_to_upsert_buffer) :
          vectors_to_upsert_buffer[i] = ItemOfRow(vectors_to_upsert_buffer[i].values)
    /\ \A i \in 1..Len(call.batch) :
          call.batch[i] = ItemOfRow(call.batch[i].values)

\* a batch holding an item of a later chunk before an item of an earlier chunk
C11_Witness ==
    /\ nCalls > 0
    /\ Len(call.batch) > 1
    /\ call.batch[1].values > call.batch[2].values
    /\ call.batch[2].id = excel[call.batch[2].values]

\* the row of the sheet that row r of the loaded frame comes from
Origin(r) == LoadData(sheet)[r].row

NullRow(i) == isna(sheet[i].post_id) \/ isna(sheet[i].post_text)

\* C13: null-row filtering, as claimed.  A row of the sheet whose post_id or
\* post_text cell is empty is in no embedding chunk, is never handed to the
\* sink, and the text its id becomes is never appended to the checkpoint file.
C13_NullRowsDropped ==
    \A i \in 1..Len(sheet) :
        NullRow(i) =>
            /\ \A k \in 1..Len(df) : Origin(df[k]) # i
            /\ \A r \in passed : Origin(r) # i
            /\ astype_str(sheet[i].post_id).v \notin AppendedThisRun

\* the list of the elements of a list, each as str() gives it
Stringified(x) == ListOf([i \in 1..Len(x.elems) |-> Str(x.elems[i].v)])

C15_FailFast ==
    index_dimension \notin {NO_INDEX, REQUIRED_DIMENSION} =>
        /\ pc = "aborted"
        /\ excel = <<>> /\ df = <<>>
        /\ fut = <<>>
        /\ vectors_to_upsert_buffer = <<>>
        /\ passed = {} /\ nCalls = 0
        /\ file = startFile

\* a second run that found a 1536-dimension index, with ids already in the file
C15_Witness ==
    /\ pc = "aborted"
    /\ index_dimension = FORMER_DIMENSION
    /\ run = 2
    /\ file # <<>>

\* C16: delivery batch size.  Every batch handed to upsert_with_retry has from 1
\* to PINECONE_UPSERT_BATCH_SIZE items, a batch sent from inside the loop has
\* exactly that many, and whenever the main thread waits for the next chunk or
\* is between two items the buffer holds fewer; for every pair of batch sizes
\* and every completion order.
C16_BatchSize ==
    /\ nCalls > 0 =>
          /\ Len(call.batch) >= 1
          /\ Len(call.batch) <= PINECONE_UPSERT_BATCH_SIZE
    /\ (nCalls > 0 /\ call.site = "loop") =>
          Len(call.batch) = PINECONE_UPSERT_BATCH_SIZE
    /\ pc \in {"wait", "items"} =>
          Len(vectors_to_upsert_buffer) < PINECONE_UPSERT_BATCH_SIZE

\* a full batch put together from more than one embedding chunk
C16_Witness ==
    /\ pc = "upsert"
    /\ call.site = "loop"
    /\ OPENAI_EMBEDDING_BATCH_SIZE < PINECONE_UPSERT_BATCH_SIZE
    /\ Len(call.batch) = PINECONE_UPSERT_BATCH_SIZE
    /\ Cardinality(consumed) >= 1

\* C17: drain.  The final flush is made only when every chunk has completed, with
\* a result or with an exception, and its batch is the whole buffer; no row is
\* in two batches or twice in one; and when the run is done the buffer is empty
\* and every row of every chunk that was embedded has been handed over in a batch.
C17_Drain ==
    /\ (nCalls > 0 /\ call.site = "final") =>
          /\ consumed = Chunks
          /\ \A c \in Chunks : fut[c] # "submitted"
          /\ (pc \in {"upsert", "save"}) => vectors_to_upsert_buffer = call.batch
    /\ nCalls > 0 => Cardinality(Rows(call.batch)) = Len(call.batch)
    /\ (pc = "upsert" /\ call.outcomes = <<>>) => Rows(call.batch) \cap passed = {}
    /\ pc = "done" =>
          /\ vectors_to_upsert_buffer = <<>>
          /\ \A c \in Chunks : fut[c] = "ok" => ChunkRowSet(c) \subseteq passed

\* a finished run whose last call was the final flush, after a chunk was abandoned
C17_Witness ==
    /\ pc = "done"
    /\ call.site = "final"
    /\ call.ret > 0
    /\ \E c \in Chunks : fut[c] = "failed"
    /\ vectors_to_upsert_buffer = <<>>

\* a step in which the provider call of a worker thread returns or raises
WorkerStep ==
    \E c \in DOMAIN fut :
        /\ c \in DOMAIN fut'
        /\ fut[c] = "submitted"
        /\ fut'[c] # "submitted"

\* C18: serialized mutation.  A step of a worker thread changes neither the
\* buffer nor the checkpoint file nor what was handed to the sink; an item is
\* appended to the buffer only by the main thread in its item loop, a batch is
\* handed to the sink only by the main thread in upsert_with_retry, a line is
\* appended to the file only by the main thread in save_processed_ids; and the
\* buffer does not change while a delivery or a checkpoint append is under way.
C18_Serialized ==
    [][/\ WorkerStep =>
             /\ vectors_to_upsert_buffer' = vectors_to_upsert_buffer
             /\ file' = file
             /\ passed' = passed
             /\ processed_count_in_run' = processed_count_in_run
             /\ pc' = pc
       /\ Len(vectors_to_upsert_buffer') > Len(vectors_to_upsert_buffer) =>
             (pc = "items" /\ ~WorkerStep)
       /\ (passed' # passed /\ passed' # {}) => (pc = "upsert" /\ ~WorkerStep)
       /\ Len(file') > Len(file) => (pc = "save" /\ ~WorkerStep)
       /\ (pc \in {"upsert", "save"} /\ pc' \in {"upsert", "save"}) =>
             vectors_to_upsert_buffer' = vectors_to_upsert_buffer]_vars

\* a delivery under way while one provider call has ended and another has not
C18_Witness ==
    /\ pc \in {"upsert", "save"}
    /\ \E c \in Chunks \ consumed : c # batch_idx /\ fut[c] # "submitted"
    /\ \E c \in Chunks : fut[c] = "submitted"

\* C19: summary count, as claimed, at the points where the main thread is not
\* inside upsert_with_retry and at the end of the run: processed_count_in_run
\* is the number of lines appended to the checkpoint file since startup.
C19_SummaryCount ==
    pc \in {"wait", "items", "done"} =>
        processed_count_in_run = Len(file) - Len(startFile)

\* C12: run termination.  When every provider call and every sink call returns
\* and the process is not stopped, each upsert_with_retry call makes at most
\* max_retries sink calls and fewer sleeps, and a run that has submitted its
\* chunks reaches the end, where the summary is printed, whatever the provider
\* failures and the retryable or non-retryable sink failures on the way.
C12_Terminates ==
    /\ [](nCalls > 0 =>
            /\ Len(call.outcomes) <= max_retries
            /\ Len(call.delays) < max_retries)
    /\ (pc \in {"wait", "items", "upsert", "save"}) ~> (pc = "done")

\* a finished run in which a chunk was abandoned and the last call used up its retries
C12_Witness ==
    /\ pc = "done"
    /\ \E c \in Chunks : fut[c] = "failed"
    /\ nCalls > 0
    /\ call.ret = 0
    /\ Len(call.outcomes) = max_retries

=============================================================================
